---------------------------- MODULE Spec2Model ----------------------------
(***************************************************************************)
(* Model of creditcard_parser.py: the label-anchored field extractors, the *)
(* issuer detector, the snippet builder and the aggregating parse_pdf.     *)
(*                                                                         *)
(* A text (Python str) is a sequence of characters; a character is a       *)
(* one-character string, except the two non-ASCII code points the patterns *)
(* name, which are the atoms Rupee (U+20B9) and EnDash (U+2013).           *)
(* Positions are 0-based as in Python; a span is <<start, end>>, end       *)
(* exclusive.  Optional[T] is a sequence: None is <<>>, a present v is     *)
(* <<v>>.  A confidence is kept in hundredths (0.95 is 95).                *)
(***************************************************************************)
EXTENDS Integers, Sequences, FiniteSets, TLC

VARIABLES
    pages,    \* the page texts text_from_pdf returned
    op,       \* "idle", then the name of the function that has returned
    hint,     \* extract_card_variant's issuer_hint argument
    text,     \* the text a match was found in (snippet_around's text argument)
    span,     \* the span of that match (snippet_around's match_span argument)
    page_i,   \* the page index of the extractor's loop at its return
    snip,     \* snippet_around's return value
    result,   \* the Extraction an extractor returned
    issuer,   \* find_issuer's return value
    record    \* parse_pdf's return value

vars == <<pages, op, hint, text, span, page_i, snip, result, issuer, record>>

-----------------------------------------------------------------------------
(* Characters and the character classes of Python's re on these texts.     *)

Rupee == "U+20B9"
EnDash == "U+2013"
EOT == ""

Digits == {"0", "1", "2", "3", "4", "5", "6", "7", "8", "9"}
UpperSeq == <<"A", "B", "C", "D", "E", "F", "G", "H", "I", "J", "K", "L", "M", "N", "O", "P", "Q", "R", "S", "T", "U", "V", "W", "X", "Y", "Z">>
LowerSeq == <<"a", "b", "c", "d", "e", "f", "g", "h", "i", "j", "k", "l", "m", "n", "o", "p", "q", "r", "s", "t", "u", "v", "w", "x", "y", "z">>
Uppers == {UpperSeq[i] : i \in 1..26}
Lowers == {LowerSeq[i] : i \in 1..26}
Whitespace == {" ", "\n", "\t"}

None == <<>>
Some(v) == <<v>>

Min(S) == CHOOSE x \in S : \A y \in S : x <= y
Max2(a, b) == IF a >= b THEN a ELSE b
Min2(a, b) == IF a <= b THEN a ELSE b

\* str.lower() of one character
LowerChar(c) ==
    IF c \in Uppers THEN LowerSeq[CHOOSE i \in 1..26 : UpperSeq[i] = c] ELSE c

\* str.upper() of one character
UpperChar(c) ==
    IF c \in Lowers THEN UpperSeq[CHOOSE i \in 1..26 : LowerSeq[i] = c] ELSE c

\* str.lower()
Lower(s) == [i \in 1..Len(s) |-> LowerChar(s[i])]

\* s[i] for a 0-based position, EOT past the end
At(s, i) == IF i >= 0 /\ i < Len(s) THEN s[i + 1] ELSE EOT

\* Python's s[a:b] for 0 <= a; b is clamped to len(s)
Slice(s, a, b) ==
    LET e == Min2(b, Len(s))
    IN  IF a >= e THEN <<>> ELSE SubSeq(s, a + 1, e)

\* the length of the maximal run of characters of class C starting at p
\* (EOT is in no class, so the run ends at the end of s at the latest)
Run(s, p, C) ==
    IF p >= Len(s) THEN 0
    ELSE (CHOOSE j \in p..Len(s) :
             At(s, j) \notin C /\ \A k \in p..(j - 1) : At(s, k) \in C) - p

\* the literal lit (given in lower case) occurs at position p
LitAt(s, p, lit) == \A k \in 1..Len(lit) : At(s, p + k - 1) = lit[k]

\* the literal lit (given in lower case) occurs at position p, ignoring case (re.I)
LitAtI(s, p, lit) == \A k \in 1..Len(lit) : LowerChar(At(s, p + k - 1)) = lit[k]

\* str.find(sub): the lowest index where sub occurs, -1 when it does not
Find(s, sub) ==
    LET I == {p \in 0..(Len(s) - Len(sub)) : LitAt(s, p, sub)}
    IN  IF I = {} THEN -1 ELSE Min(I)

\* the operator `sub in s`
Contains(s, sub) == Find(s, sub) >= 0

-----------------------------------------------------------------------------
(* normalize_spaces: re.sub(r'\s+', ' ', s).strip()                         *)

\* re.sub(r'\s+', ' ', s): every maximal whitespace run becomes one space
\* (its first character is replaced by a space, the others are dropped)
Collapse(s) ==
    LET Dropped == "dropped"
        marked  == [i \in 1..Len(s) |->
                       IF s[i] \notin Whitespace THEN s[i]
                       ELSE IF i > 1 /\ s[i - 1] \in Whitespace THEN Dropped ELSE " "]
    IN  SelectSeq(marked, LAMBDA c : c # Dropped)

\* str.strip(): leading and trailing whitespace removed
Strip(s) ==
    LET n     == Len(s)
        lead  == Run(s, 0, Whitespace)
        trail == CHOOSE k \in 0..n :
                    /\ k = n \/ s[n - k] \notin Whitespace
                    /\ \A j \in 1..k : s[n - j + 1] \in Whitespace
    IN  IF lead >= n THEN <<>> ELSE SubSeq(s, lead + 1, n - trail)

normalize_spaces(s) == Strip(Collapse(s))

-----------------------------------------------------------------------------
(* snippet_around                                                          *)

Context == 40

\* a variant of snippet_around with a window of 50 characters on each side
snippet_around_wide(t, match_span) ==
    normalize_spaces(Slice(t, Max2(0, match_span[1] - 50), Min2(Len(t), match_span[2] + 50)))

snippet_around(t, match_span) ==
    LET start == Max2(0, match_span[1] - Context)
        end   == Min2(Len(t), match_span[2] + Context)
    IN  normalize_spaces(Slice(t, start, end))

-----------------------------------------------------------------------------
(* ISSUERS and find_issuer.  A dict iterates in insertion order.           *)

ISSUERS == <<
    [key |-> "pnb",  tokens |-> << <<"p", "n", "b">>, <<"p", "u", "n", "j", "a", "b", " ", "n", "a", "t", "i", "o", "n", "a", "l", " ", "b", "a", "n", "k">> >>],
    [key |-> "lena", tokens |-> << <<"l", "e", "n", "a">>, <<"b", "o", "f", "a">>, <<"b", "a", "n", "k", "o", "f", "a", "m", "e", "r", "i", "c", "a">> >>],
    [key |-> "hdfc", tokens |-> << <<"h", "d", "f", "c">> >>],
    [key |-> "sbi",  tokens |-> << <<"s", "b", "i">>, <<"s", "t", "a", "t", "e", " ", "b", "a", "n", "k", " ", "o", "f", " ", "i", "n", "d", "i", "a">> >> ] >>

\* the issuers, by position, with a token in lc
IssuerHits(lc) ==
    {k \in 1..Len(ISSUERS) :
        \E j \in 1..Len(ISSUERS[k].tokens) : Contains(lc, ISSUERS[k].tokens[j])}

\* a variant of FirstIssuer where the last declared issuer with a token wins
LastIssuer(Hit) ==
    IF Hit = {} THEN None
    ELSE Some(ISSUERS[CHOOSE k \in Hit : \A j \in Hit : j <= k].key)

FirstIssuer(Hit) == IF Hit = {} THEN None ELSE Some(ISSUERS[Min(Hit)].key)

find_issuer(all_text) == FirstIssuer(IssuerHits(Lower(all_text)))

-----------------------------------------------------------------------------
(* The compiled patterns.  A match is the record re.Match holds: its span  *)
(* <<start, end>> and the span <<gs, ge>> of group 1.  The matcher follows  *)
(* the backtracking order of re: alternatives left to right, greedy        *)
(* quantifiers longest first.  Candidate positions are listed in that      *)
(* order and the first that lets the rest of the pattern match is taken.   *)

NoMatch == [ok |-> FALSE, start |-> 0, end |-> 0, gs |-> 0, ge |-> 0]
Match(a, b, c, d) == [ok |-> TRUE, start |-> a, end |-> b, gs |-> c, ge |-> d]

\* a match from p to e whose group 1 is the whole match; none when e < 0
MatchWhole(p, e) == IF e < 0 THEN NoMatch ELSE Match(p, e, p, e)

\* a match from p to e whose group 1 runs from c to e; none when c < 0
MatchTo(p, c, e) == IF c < 0 THEN NoMatch ELSE Match(p, e, c, e)

\* search(): of the matches at every position, the one that starts leftmost
Leftmost(M) ==
    IF \A m \in M : ~m.ok THEN NoMatch
    ELSE CHOOSE m \in M : m.ok /\ \A n \in M : n.ok => m.start <= n.start

RECURSIVE Flatten(_)
Flatten(ss) == IF ss = <<>> THEN <<>> ELSE Head(ss) \o Flatten(Tail(ss))

\* the first of the candidates that let the rest of the pattern match, given
\* in their order; -1 when there is none
First(cands) == IF cands = <<>> THEN -1 ELSE Head(cands)

\* \s* from p: the positions it can stop at, longest run first
WsDesc(s, p) ==
    LET w == Run(s, p, Whitespace)
    IN  [k \in 1..(w + 1) |-> p + w + 1 - k]

Seps == {":", "-"}

\* [:\-]?\s* from e: with the separator first, then without it
OptSepWs(s, e) ==
    (IF At(s, e) \in Seps THEN WsDesc(s, e + 1) ELSE <<>>) \o WsDesc(s, e)

\* \s*(?:[:\-]?\s*) from e
LabelTail(s, e) ==
    LET a == WsDesc(s, e)
    IN  Flatten([i \in 1..Len(a) |-> OptSepWs(s, a[i])])

\* \s*(?:[:\-]?\s*) from each of the label ends, in their order
LabelTails(s, ends) == Flatten([i \in 1..Len(ends) |-> LabelTail(s, ends[i])])

\* lit at p, ignoring case: the position after it, as a sequence
Lit(s, p, lit) == IF LitAtI(s, p, lit) THEN <<p + Len(lit)>> ELSE <<>>

\* \s+lit from q (the \s+ is followed by a letter, so only the whole
\* whitespace run can match): the position after it, -1 when it fails
WsLit(s, q, w, lit) ==
    IF q >= 0 /\ w >= 1 /\ LitAtI(s, q + w, lit) THEN q + w + Len(lit) ELSE -1

WsLitFrom(s, q, lit) == WsLit(s, q, Run(s, q, Whitespace), lit)

\* \s+lit1\s+lit2 from q: the end position, as a sequence
EndSeq(e) == IF e < 0 THEN <<>> ELSE <<e>>

WsLitWsLit(s, q, lit1, lit2) == EndSeq(WsLitFrom(s, WsLitFrom(s, q, lit1), lit2))

\* lit, then an optional "." (\.?): with the dot first
LitOptDot(s, p, lit) ==
    IF ~LitAtI(s, p, lit) THEN <<>>
    ELSE IF At(s, p + Len(lit)) = "." THEN <<p + Len(lit) + 1, p + Len(lit)>>
         ELSE <<p + Len(lit)>>

\* RE_LAST4's label alternation at p: the positions where a label can end
Last4LabelEnds(s, p) ==
    (IF LitAtI(s, p, <<"c", "a", "r", "d">>)
     THEN WsLitWsLit(s, p + 4, <<"e", "n", "d", "i", "n", "g">>, <<"i", "n">>)
          \o Lit(s, p + 4, <<" ", "n", "u", "m", "b", "e", "r">>)
          \o LitOptDot(s, p + 4, <<" ", "n", "o">>)
     ELSE <<>>)
    \o (IF LitAtI(s, p, <<"a", "c", "c", "o", "u", "n", "t">>)
        THEN WsLitWsLit(s, p + 7, <<"e", "n", "d", "i", "n", "g">>, <<"i", "n">>) ELSE <<>>)
    \o LitOptDot(s, p, <<"a", "c", "c", "t">>)
    \o Lit(s, p, <<"e", "n", "d", "i", "n", "g">>)
    \o Lit(s, p, <<"x", "x", "x", "-", "x", "x", "x", "x", "-">>)

\* (\d{4}) at d
FourDigitsAt(s, d) == \A k \in 0..3 : At(s, d + k) \in Digits

\* (?:[:\-]?\s*)?(\d{4}) from the label ends: where the digits start.
\* The optional group is taken first, then skipped.
Last4DigitsStart(s, ends) ==
    First(SelectSeq(Flatten([i \in 1..Len(ends) |-> OptSepWs(s, ends[i]) \o <<ends[i]>>]),
                    LAMBDA x : FourDigitsAt(s, x)))

Last4Match(p, d) == MatchTo(p, d, d + 4)

\* RE_LAST4.match at p
RE_LAST4_at(s, p) == Last4Match(p, Last4DigitsStart(s, Last4LabelEnds(s, p)))

\* RE_LAST4.search
RE_LAST4_search(s) == Leftmost({RE_LAST4_at(s, p) : p \in 0..Len(s)})

DateSeps == {"/", "-"}

\* of pairs of field lengths, the one greedy matching takes: the longest
\* first field, then the longest second field
Greediest(V) ==
    CHOOSE x \in V : \A y \in V : y[1] < x[1] \/ (y[1] = x[1] /\ y[2] <= x[2])

\* \d{1,2}[\/\-]\d{1,2}[\/\-] at p, followed by two digits: the lengths the
\* two digit fields can take
DateFields(s, p) ==
    {dd \in (1..2) \X (1..2) :
        /\ dd[1] <= Run(s, p, Digits)
        /\ At(s, p + dd[1]) \in DateSeps
        /\ dd[2] <= Run(s, p + dd[1] + 1, Digits)
        /\ At(s, p + dd[1] + 1 + dd[2]) \in DateSeps
        /\ Run(s, p + dd[1] + dd[2] + 2, Digits) >= 2}

\* \d{2,4} at ys: the end of the year
YearEnd(s, ys) == ys + Min2(Run(s, ys, Digits), 4)

DateMatch(s, p, V) ==
    IF V = {} THEN NoMatch
    ELSE MatchWhole(p, YearEnd(s, p + Greediest(V)[1] + Greediest(V)[2] + 2))

\* RE_DATE.match at p: \d{1,2}[\/\-]\d{1,2}[\/\-]\d{2,4}
RE_DATE_at(s, p) == DateMatch(s, p, DateFields(s, p))

RE_DATE_search(s) == Leftmost({RE_DATE_at(s, p) : p \in 0..Len(s)})

\* [a-z]{2,8}\s+ from q: the lengths k of the lower-case field, each with
\* the position after the whitespace
WordFields(s, q) ==
    {kd \in (2..8) \X (q..Len(s)) :
        /\ kd[1] <= Run(s, q, Lowers)
        /\ Run(s, q + kd[1], Whitespace) >= 1
        /\ kd[2] = q + kd[1] + Run(s, q + kd[1], Whitespace)}

\* \d{1,2},\s*\d{4} at d: the end position, -1 when it fails
DayYearEnd(s, d) ==
    LET n == Run(s, d, Digits)
        c == d + n
        y == c + 1 + Run(s, c + 1, Whitespace)
    IN  IF n >= 1 /\ n <= 2 /\ At(s, c) = "," /\ FourDigitsAt(s, y) THEN y + 4 ELSE -1

WordMatch(s, p, V) ==
    IF At(s, p) \notin Uppers \/ V = {} THEN NoMatch
    ELSE MatchWhole(p, DayYearEnd(s, Greediest(V)[2]))

\* RE_DATE_WORD.match at p: [A-Z][a-z]{2,8}\s+\d{1,2},\s*\d{4}  (no re.I)
RE_DATE_WORD_at(s, p) ==
    WordMatch(s, p, {kd \in WordFields(s, p + 1) : DayYearEnd(s, kd[2]) >= 0})

RE_DATE_WORD_search(s) == Leftmost({RE_DATE_WORD_at(s, p) : p \in 0..Len(s)})

DueClass == Uppers \cup Lowers \cup Digits \cup {" ", ",", "/", "-"}
PeriodClass == DueClass \cup {EnDash}

\* ([C]+) from c: the greedy run of the class
RunMatch(s, p, C, c) == MatchTo(p, c, c + Run(s, c, C))

\* label, \s*(?:[:\-]?\s*), then ([C]+)
LabelRun_at(s, p, ends, C) ==
    RunMatch(s, p, C, First(SelectSeq(LabelTails(s, ends), LAMBDA x : At(s, x) \in C)))

DueLabelEnds(s, p) ==
    Lit(s, p, <<"p", "a", "y", "m", "e", "n", "t", " ", "d", "u", "e", " ", "d", "a", "t", "e">>) \o Lit(s, p, <<"d", "u", "e", " ", "d", "a", "t", "e">>)
    \o Lit(s, p, <<"p", "a", "y", "m", "e", "n", "t", " ", "d", "u", "e", " ", "o", "n">>) \o Lit(s, p, <<"p", "a", "y", " ", "b", "y", " ", "d", "a", "t", "e">>)

RE_DUE_at(s, p) == LabelRun_at(s, p, DueLabelEnds(s, p), DueClass)

RE_DUE_search(s) == Leftmost({RE_DUE_at(s, p) : p \in 0..Len(s)})

PeriodLabelEnds(s, p) ==
    Lit(s, p, <<"s", "t", "a", "t", "e", "m", "e", "n", "t", " ", "p", "e", "r", "i", "o", "d">>) \o Lit(s, p, <<"b", "i", "l", "l", "i", "n", "g", " ", "p", "e", "r", "i", "o", "d">>)
    \o Lit(s, p, <<"s", "t", "a", "t", "e", "m", "e", "n", "t", " ", "d", "a", "t", "e", " ", "r", "a", "n", "g", "e">>) \o Lit(s, p, <<"a", "c", "c", "o", "u", "n", "t", " ", "a", "c", "t", "i", "v", "i", "t", "y">>)

RE_PERIOD_at(s, p) == LabelRun_at(s, p, PeriodLabelEnds(s, p), PeriodClass)

RE_PERIOD_search(s) == Leftmost({RE_PERIOD_at(s, p) : p \in 0..Len(s)})

AmtClass == Digits \cup {","}

\* (?:\.\d{2})? at e
FractionEnd(s, e) ==
    IF At(s, e) = "." /\ At(s, e + 1) \in Digits /\ At(s, e + 2) \in Digits
    THEN e + 3 ELSE e

\* [,\d]+(?:\.\d{2})? at q: the end, -1 when q < 0
AmountEnd(s, q) == IF q < 0 THEN -1 ELSE FractionEnd(s, q + Run(s, q, AmtClass))

\* the currency shape (Rupee?\s*[,\d]+(?:\.\d{2})?) at c: the end of the
\* match, -1 when there is none
CurrencyEnd(s, c) ==
    AmountEnd(s, First(SelectSeq((IF At(s, c) = Rupee THEN WsDesc(s, c + 1) ELSE <<>>)
                                     \o WsDesc(s, c),
                                 LAMBDA x : At(s, x) \in AmtClass)))

\* RE_CURRENCY.search; group(0) is the span
RE_CURRENCY_search(s) == Leftmost({MatchWhole(p, CurrencyEnd(s, p)) : p \in 0..Len(s)})

TotalLabelEnds(s, p) ==
    Lit(s, p, <<"t", "o", "t", "a", "l", " ", "a", "m", "o", "u", "n", "t", " ", "d", "u", "e">>) \o Lit(s, p, <<"t", "o", "t", "a", "l", " ", "o", "u", "t", "s", "t", "a", "n", "d", "i", "n", "g">>)
    \o Lit(s, p, <<"t", "o", "t", "a", "l", " ", "d", "u", "e">>) \o Lit(s, p, <<"n", "e", "w", " ", "b", "a", "l", "a", "n", "c", "e">>)
    \o Lit(s, p, <<"a", "m", "o", "u", "n", "t", " ", "d", "u", "e">>) \o Lit(s, p, <<"b", "a", "l", "a", "n", "c", "e", " ", "d", "u", "e">>)

TotalMatch(s, p, c) == MatchTo(p, c, CurrencyEnd(s, c))

RE_TOTAL_BAL_at(s, p) ==
    TotalMatch(s, p, First(SelectSeq(LabelTails(s, TotalLabelEnds(s, p)),
                                     LAMBDA x : CurrencyEnd(s, x) >= 0)))

RE_TOTAL_BAL_search(s) == Leftmost({RE_TOTAL_BAL_at(s, p) : p \in 0..Len(s)})

\* m.group(1)
Group1(s, m) == Slice(s, m.gs, m.ge)

-----------------------------------------------------------------------------
(* Extraction and the five extractors.  X_loop is the for loop from page   *)
(* index i on and X_page its body on page text t with match m; they return *)
(* the frame at the return statement: the Extraction returned (ret), the   *)
(* match m and the page index i (-1 when the loop was never entered).      *)

\* a variant of Extraction that leaves page unset
Extraction_no_page(value, page, snippet, confidence) ==
    [value |-> Some(value), page |-> None, snippet |-> Some(snippet),
     confidence |-> confidence, notes |-> None]

Extraction(value, page, snippet, confidence) ==
    [value |-> Some(value), page |-> Some(page), snippet |-> Some(snippet),
     confidence |-> confidence, notes |-> None]

\* a variant of Absent that leaves notes unset
Absent_no_note(notes) ==
    [value |-> None, page |-> None, snippet |-> None,
     confidence |-> 0, notes |-> None]

Absent(notes) ==
    [value |-> None, page |-> None, snippet |-> None,
     confidence |-> 0, notes |-> Some(notes)]

Frame(ret, m, i) == [ret |-> ret, m |-> m, i |-> i]

Span(m) == <<m.start, m.end>>

RECURSIVE last4_loop(_, _)

\* a variant of last4_page that reports the 0-based page index
last4_page_zero_based(pgs, i, t, m) ==
    IF m.ok
    THEN Frame([value |-> Some(Group1(t, m)), page |-> Some(i),
                snippet |-> Some(snippet_around(t, Span(m))), confidence |-> 95,
                notes |-> None], m, i)
    ELSE last4_loop(pgs, i + 1)

last4_page(pgs, i, t, m) ==
    IF m.ok
    THEN Frame(Extraction(Group1(t, m), i + 1, snippet_around(t, Span(m)), 95), m, i)
    ELSE last4_loop(pgs, i + 1)

last4_loop(pgs, i) ==
    IF i >= Len(pgs) THEN Frame(Absent("not found"), NoMatch, i)
    ELSE last4_page(pgs, i, pgs[i + 1], RE_LAST4_search(pgs[i + 1]))

extract_last4(pgs) == last4_loop(pgs, 0)

\* a or b, for matches
OrElse(a, b) == IF a.ok THEN a ELSE b

\* RE_DATE.search(g) or RE_DATE_WORD.search(g)
DateIn(g) == OrElse(RE_DATE_search(g), RE_DATE_WORD_search(g))

RECURSIVE due_loop(_, _)

\* `if d:` with g = m.group(1): falls through to the next page without a date
due_date(pgs, i, t, m, g, d) ==
    IF d.ok
    THEN Frame(Extraction(normalize_spaces(Group1(g, d)), i + 1,
                          snippet_around(t, Span(m)), 95), m, i)
    ELSE due_loop(pgs, i + 1)

due_phrase(pgs, i, t, m, g) == due_date(pgs, i, t, m, g, DateIn(g))

due_page(pgs, i, t, m) ==
    IF m.ok THEN due_phrase(pgs, i, t, m, Group1(t, m)) ELSE due_loop(pgs, i + 1)

due_loop(pgs, i) ==
    IF i >= Len(pgs) THEN Frame(Absent("not found"), NoMatch, i)
    ELSE due_page(pgs, i, pgs[i + 1], RE_DUE_search(pgs[i + 1]))

extract_due_date(pgs) == due_loop(pgs, 0)

RECURSIVE period_loop(_, _)

\* a variant of period_page that keeps scanning: the last matching page wins
period_page_last_wins(pgs, i, t, m) ==
    IF m.ok /\ period_loop(pgs, i + 1).ret.value = None
    THEN Frame([value |-> Some(normalize_spaces(Group1(t, m))), page |-> Some(i + 1),
                snippet |-> Some(snippet_around(t, Span(m))), confidence |-> 90,
                notes |-> None], m, i)
    ELSE period_loop(pgs, i + 1)

period_page(pgs, i, t, m) ==
    IF m.ok
    THEN Frame(Extraction(normalize_spaces(Group1(t, m)), i + 1,
                          snippet_around(t, Span(m)), 90), m, i)
    ELSE period_loop(pgs, i + 1)

period_loop(pgs, i) ==
    IF i >= Len(pgs) THEN Frame(Absent("not found"), NoMatch, i)
    ELSE period_page(pgs, i, pgs[i + 1], RE_PERIOD_search(pgs[i + 1]))

extract_statement_period(pgs) == period_loop(pgs, 0)

RECURSIVE total_loop(_, _)

\* a variant of total_amount with the two confidences exchanged
total_amount_swapped(i, t, m, g, amt) ==
    [ret |-> [value |-> Some(IF amt.ok THEN Slice(g, amt.start, amt.end) ELSE normalize_spaces(g)),
              page |-> Some(i + 1), snippet |-> Some(snippet_around(t, Span(m))),
              confidence |-> IF amt.ok THEN 80 ELSE 95, notes |-> None],
     m |-> m, i |-> i]

\* `if amt: ... else: ...` with g = m.group(1)
total_amount(i, t, m, g, amt) ==
    IF amt.ok
    THEN Frame(Extraction(Slice(g, amt.start, amt.end), i + 1,
                          snippet_around(t, Span(m)), 95), m, i)
    ELSE Frame(Extraction(normalize_spaces(g), i + 1,
                          snippet_around(t, Span(m)), 80), m, i)

total_phrase(i, t, m, g) == total_amount(i, t, m, g, RE_CURRENCY_search(g))

total_page(pgs, i, t, m) ==
    IF m.ok THEN total_phrase(i, t, m, Group1(t, m)) ELSE total_loop(pgs, i + 1)

total_loop(pgs, i) ==
    IF i >= Len(pgs) THEN Frame(Absent("not found"), NoMatch, i)
    ELSE total_page(pgs, i, pgs[i + 1], RE_TOTAL_BAL_search(pgs[i + 1]))

extract_total_balance(pgs) == total_loop(pgs, 0)

\* str.title(): a letter is upper-cased after a non-letter, lower-cased after a letter
Title(s) ==
    [k \in 1..Len(s) |->
        IF k = 1 \/ s[k - 1] \notin (Uppers \cup Lowers)
        THEN UpperChar(s[k]) ELSE LowerChar(s[k])]

\* a variant of VariantNames that gives hdfc the names of sbi
VariantNames_hdfc(issuer_hint) ==
    IF issuer_hint \in {"sbi", "hdfc"}
    THEN << <<"p", "r", "i", "m", "e">>, <<"s", "i", "m", "p", "l", "y", "c", "l", "i", "c", "k">>, <<"e", "l", "i", "t", "e">>, <<"c", "l", "a", "s", "s", "i", "c">> >>
    ELSE <<>>

\* the candidate names of the if/elif chain
VariantNames(issuer_hint) ==
    CASE issuer_hint = "chase" -> << <<"s", "a", "p", "p", "h", "i", "r", "e">>, <<"f", "r", "e", "e", "d", "o", "m">>, <<"i", "n", "k">>, <<"s", "l", "a", "t", "e">> >>
      [] issuer_hint = "amex"  -> << <<"p", "l", "a", "t", "i", "n", "u", "m">>, <<"g", "o", "l", "d">>, <<"g", "r", "e", "e", "n">>, <<"b", "l", "u", "e">> >>
      [] issuer_hint = "citi"  -> << <<"t", "h", "a", "n", "k", "y", "o", "u">>, <<"p", "r", "e", "m", "i", "e", "r">>, <<"d", "o", "u", "b", "l", "e", " ", "c", "a", "s", "h">> >>
      [] issuer_hint = "boa"   -> << <<"c", "a", "s", "h", " ", "r", "e", "w", "a", "r", "d", "s">>, <<"c", "u", "s", "t", "o", "m", "i", "z", "e", "d", " ", "c", "a", "s", "h">> >>
      [] issuer_hint = "hsbc"  -> << <<"p", "r", "e", "m", "i", "e", "r">>, <<"a", "d", "v", "a", "n", "c", "e">> >>
      [] issuer_hint = "sbi"   -> << <<"p", "r", "i", "m", "e">>, <<"s", "i", "m", "p", "l", "y", "c", "l", "i", "c", "k">>, <<"e", "l", "i", "t", "e">>, <<"c", "l", "a", "s", "s", "i", "c">> >>
      [] OTHER -> <<>>

\* `not issuer_hint`: None or the empty string
Falsy(h) == h = None \/ h[1] = ""

RECURSIVE variant_loop(_, _, _)

\* the return inside `if nm in lc:` with idx = lc.find(nm)
variant_found(i, t, nm, idx) ==
    Frame(Extraction(Title(nm), i + 1,
                     normalize_spaces(Slice(t, Max2(0, idx - 30), idx + 30)), 85),
          Match(idx, idx + Len(nm), idx, idx + Len(nm)), i)

variant_name(i, t, lc, nm) == variant_found(i, t, nm, Find(lc, nm))

\* a variant of variant_names that takes the name standing leftmost in the text
variant_names_leftmost(pgs, names, i, t, lc, J) ==
    IF J # {}
    THEN variant_name(i, t, lc,
                      names[CHOOSE j \in J : \A k \in J : Find(lc, names[j]) <= Find(lc, names[k])])
    ELSE variant_loop(pgs, names, i + 1)

\* `for nm in names: if nm in lc:`; J holds the positions of the names in lc
variant_names(pgs, names, i, t, lc, J) ==
    IF J # {} THEN variant_name(i, t, lc, names[Min(J)])
    ELSE variant_loop(pgs, names, i + 1)

variant_page(pgs, names, i, t, lc) ==
    variant_names(pgs, names, i, t, lc, {j \in 1..Len(names) : Contains(lc, names[j])})

variant_loop(pgs, names, i) ==
    IF i >= Len(pgs) THEN Frame(Absent("not found"), NoMatch, i)
    ELSE variant_page(pgs, names, i, pgs[i + 1], Lower(pgs[i + 1]))

extract_card_variant(pgs, issuer_hint) ==
    IF Falsy(issuer_hint) THEN Frame(Absent("issuer unknown"), NoMatch, -1)
    ELSE variant_loop(pgs, VariantNames(issuer_hint[1]), 0)

-----------------------------------------------------------------------------
(* parse_pdf, from the pages text_from_pdf returned                        *)

\* "\n".join(pgs)
RECURSIVE Join(_)
Join(pgs) ==
    IF pgs = <<>> THEN <<>>
    ELSE IF Len(pgs) = 1 THEN pgs[1]
         ELSE pgs[1] \o <<"\n">> \o Join(Tail(pgs))

\* the dict parse_pdf returns, given the issuer find_issuer returned
StatementRecord(pgs, iss) ==
    [issuer_hint      |-> iss,
     card_last4       |-> extract_last4(pgs).ret,
     card_variant     |-> extract_card_variant(pgs, iss).ret,
     statement_period |-> extract_statement_period(pgs).ret,
     payment_due_date |-> extract_due_date(pgs).ret,
     total_balance    |-> extract_total_balance(pgs).ret]

parse_pdf(pgs) == StatementRecord(pgs, find_issuer(Join(pgs)))

-----------------------------------------------------------------------------
(* The inputs: documents of at most MaxPages pages over a corpus of page    *)
(* texts, issuer hints, and spans over a page.                             *)

MaxPages == 2

Filler == <<"l", "o", "r", "e", "m", " ", "i", "p", "s", "u", "m", " ", " ", "d", "o", "l", "o", "r", "\n", "s", "i", "t", " ", "a", "m", "e", "t", ",", " ", "c", "o", "n", "s", "e", "c", "t", "e", "t", "u", "r", " ", " ", "a", "d", "i", "p", "i", "s", "c", "i", "n", "g", "	">>

PageTexts == {
    <<>>,
    <<"C", "a", "r", "d", " ", "e", "n", "d", "i", "n", "g", " ", "i", "n", " ", "4", "3", "2", "1">>,
    <<"C", "a", "r", "d", " ", "n", "u", "m", "b", "e", "r", " ", "1", "2", "3", "4", "5", "6", "7", "8", "\n", "D", "u", "e", " ", "D", "a", "t", "e", ":", " ", "s", "o", "o", "n">>,
    <<"A", "c", "c", "t", ".", " ", "1", "2", "3", " ", "D", "u", "e", " ", "D", "a", "t", "e", ":", " ", "0", "4", "/", "1", "5", "/", "2", "0", "2", "4">>,
    <<"P", "a", "y", " ", "B", "y", " ", "D", "a", "t", "e", " ", "-", " ", "M", "a", "r", "c", "h", " ", "5", ",", " ", "2", "0", "2", "4">>,
    <<"S", "t", "a", "t", "e", "m", "e", "n", "t", " ", "P", "e", "r", "i", "o", "d", ":", " ", "1", "/", "1", "/", "2", "4", " ", "t", "o", " ", "3", "1", "/", "1", "/", "2", "4", "\n", "T", "o", "t", "a", "l", " ", "A", "m", "o", "u", "n", "t", " ", "D", "u", "e", ":", " ", Rupee, "1", "2", ",", "3", "4", "5", ".", "6", "7">>,
    <<"H", "D", "F", "C", " ", "P", "r", "e", "m", "i", "e", "r", " ", "p", "n", "b", " ", "P", "r", "i", "m", "e">>,
    <<"S", "B", "I", " ", "e", "l", "i", "t", "e", " ", "S", "i", "m", "p", "l", "y", "C", "l", "i", "c", "k">>,
    <<"B", "o", "f", "A", " ", "c", "l", "a", "s", "s", "i", "c", " ", "T", "h", "a", "n", "k", "Y", "o", "u">>,
    <<"h", "d", "f", "c", " ", "C", "l", "a", "s", "s", "i", "c", " ", "N", "e", "w", " ", "B", "a", "l", "a", "n", "c", "e", " ", "5", "0", "0">>,
    Filler \o <<"A", "c", "c", "o", "u", "n", "t", " ", " ", "e", "n", "d", "i", "n", "g", " ", "i", "n", ":", " ", "9", "8", "7", "6">> \o Filler }

Docs == UNION {[1..n -> PageTexts] : n \in 0..MaxPages}

Hints == {None, Some(""), Some("sbi"), Some("citi"), Some("hsbc"), Some("hdfc"), Some("chase")}

\* span end points of a text of length n: its edges and the points around
\* Context from each edge
SpanPoints(n) ==
    {x \in {0, 1, Context - 1, Context, Context + 1,
            n - Context - 1, n - Context, n - Context + 1, n - 1, n} : 0 <= x /\ x <= n}

-----------------------------------------------------------------------------
(* The state machine: one call of one function on the document.            *)

Init ==
    /\ pages \in Docs
    /\ op = "idle"
    /\ hint = None
    /\ text = <<>>
    /\ span = <<0, 0>>
    /\ page_i = -1
    /\ snip = <<>>
    /\ result = Absent("")
    /\ issuer = None
    /\ record = <<>>

\* what a returned frame leaves in the state
Returned(name, f) ==
    /\ op' = name
    /\ result' = f.ret
    /\ text' = IF f.m.ok THEN pages[f.i + 1] ELSE <<>>
    /\ span' = Span(f.m)
    /\ page_i' = f.i

ExtractLast4 ==
    /\ op = "idle"
    /\ Returned("extract_last4", extract_last4(pages))
    /\ UNCHANGED <<pages, hint, snip, issuer, record>>

ExtractDueDate ==
    /\ op = "idle"
    /\ Returned("extract_due_date", extract_due_date(pages))
    /\ UNCHANGED <<pages, hint, snip, issuer, record>>

ExtractStatementPeriod ==
    /\ op = "idle"
    /\ Returned("extract_statement_period", extract_statement_period(pages))
    /\ UNCHANGED <<pages, hint, snip, issuer, record>>

ExtractTotalBalance ==
    /\ op = "idle"
    /\ Returned("extract_total_balance", extract_total_balance(pages))
    /\ UNCHANGED <<pages, hint, snip, issuer, record>>

ExtractCardVariant ==
    /\ op = "idle"
    /\ \E h \in Hints :
          /\ hint' = h
          /\ Returned("extract_card_variant", extract_card_variant(pages, h))
    /\ UNCHANGED <<pages, snip, issuer, record>>

FindIssuer ==
    /\ op = "idle"
    /\ op' = "find_issuer"
    /\ text' = Join(pages)
    /\ issuer' = find_issuer(text')
    /\ UNCHANGED <<pages, hint, span, page_i, snip, result, record>>

SnippetAround ==
    /\ op = "idle"
    /\ \E k \in 1..Len(pages) :
          \E a \in SpanPoints(Len(pages[k])), b \in SpanPoints(Len(pages[k])) :
             /\ a <= b
             /\ op' = "snippet_around"
             /\ text' = pages[k]
             /\ span' = <<a, b>>
             /\ snip' = snippet_around(pages[k], <<a, b>>)
    /\ UNCHANGED <<pages, hint, page_i, result, issuer, record>>

ParsePdf ==
    /\ op = "idle"
    /\ op' = "parse_pdf"
    /\ record' = parse_pdf(pages)
    /\ issuer' = record'.issuer_hint
    /\ UNCHANGED <<pages, hint, text, span, page_i, snip, result>>

Next ==
    \/ ExtractLast4
    \/ ExtractDueDate
    \/ ExtractStatementPeriod
    \/ ExtractTotalBalance
    \/ ExtractCardVariant
    \/ FindIssuer
    \/ SnippetAround
    \/ ParsePdf

Spec == Init /\ [][Next]_vars

-----------------------------------------------------------------------------
(* Properties                                                              *)

Extractors == {"extract_last4", "extract_due_date", "extract_statement_period",
               "extract_total_balance", "extract_card_variant"}

LabelExtractors == Extractors \ {"extract_card_variant"}

\* sub occurs in s as a contiguous substring
Occurs(s, sub) ==
    \E p \in 0..(Len(s) - Len(sub)) : SubSeq(s, p + 1, p + Len(sub)) = sub

\* value is None <=> confidence == 0.0 <=> notes is set; page and snippet
\* are set exactly when value is set
WellFormed(e) ==
    /\ (e.value = None) <=> (e.confidence = 0)
    /\ (e.confidence = 0) <=> (e.notes # None)
    /\ (e.page # None) <=> (e.value # None)
    /\ (e.snippet # None) <=> (e.value # None)

\* C1: the Extraction any of the five extractors returns, for every page
\* sequence and every issuer hint, has value is None <=> confidence == 0.0
\* <=> notes is set, and page and snippet set exactly when value is set.
C1_ExtractionInvariant == op \in Extractors => WellFormed(result)

C1_Witness ==
    /\ op = "extract_statement_period"
    /\ result.value = Some(<<"1", "/", "1", "/", "2", "4", " ", "t", "o", " ", "3", "1", "/", "1", "/", "2", "4">>)
    /\ result.confidence = 90

\* the field's label pattern matches the page text
LabelMatches(o, t) ==
    CASE o = "extract_last4" -> RE_LAST4_search(t).ok
      [] o = "extract_due_date" -> RE_DUE_search(t).ok
      [] o = "extract_statement_period" -> RE_PERIOD_search(t).ok
      [] o = "extract_total_balance" -> RE_TOTAL_BAL_search(t).ok

\* the page makes the extractor return: the label pattern matches and, for
\* the due date, the captured phrase holds a numeric or a worded date
Decides(o, t) ==
    /\ LabelMatches(o, t)
    /\ o = "extract_due_date" => DateIn(Group1(t, RE_DUE_search(t))).ok

ExtractBy(o, pgs) ==
    CASE o = "extract_last4" -> extract_last4(pgs).ret
      [] o = "extract_due_date" -> extract_due_date(pgs).ret
      [] o = "extract_statement_period" -> extract_statement_period(pgs).ret
      [] o = "extract_total_balance" -> extract_total_balance(pgs).ret

\* C2 as stated: each of the four label extractors returns on the first page
\* whose text matches the label pattern, so the returned Extraction is the one
\* the pages up to and including that page give: no later page influences it.
C2_FirstLabelPageDecides ==
    op \in LabelExtractors =>
        LET F == {k \in 1..Len(pages) : LabelMatches(op, pages[k])}
        IN  F # {} => result = ExtractBy(op, SubSeq(pages, 1, Min(F)))

\* C2 amended: extract_last4, extract_statement_period and
\* extract_total_balance return on the first page whose text matches the label
\* pattern; extract_due_date returns on the first page whose label match
\* captures a phrase holding a date, and skips a label-matching page without
\* one.  The loop stops at that page, the Extraction reports it and is the one
\* the pages up to and including it give; with no such page the loop runs
\* through every page and the Extraction is absent.
C2_FirstDecidingPageReturns ==
    op \in LabelExtractors =>
        LET F == {k \in 1..Len(pages) : Decides(op, pages[k])}
        IN  IF F = {}
            THEN result.value = None /\ page_i = Len(pages)
            ELSE /\ page_i + 1 = Min(F)
                 /\ result.page = Some(Min(F))
                 /\ result = ExtractBy(op, SubSeq(pages, 1, Min(F)))

C2_Witness ==
    /\ op = "extract_due_date"
    /\ Len(pages) = 2
    /\ RE_DUE_search(pages[1]).ok
    /\ Decides(op, pages[2])
    /\ result.page = Some(2)

\* the issuer codes in declared order, and the keywords of each
DeclaredIssuers == <<"pnb", "lena", "hdfc", "sbi">>

KeywordsOf(code) ==
    CASE code = "pnb"  -> { <<"p", "n", "b">>, <<"p", "u", "n", "j", "a", "b", " ", "n", "a", "t", "i", "o", "n", "a", "l", " ", "b", "a", "n", "k">> }
      [] code = "lena" -> { <<"l", "e", "n", "a">>, <<"b", "o", "f", "a">>, <<"b", "a", "n", "k", "o", "f", "a", "m", "e", "r", "i", "c", "a">> }
      [] code = "hdfc" -> { <<"h", "d", "f", "c">> }
      [] code = "sbi"  -> { <<"s", "b", "i">>, <<"s", "t", "a", "t", "e", " ", "b", "a", "n", "k", " ", "o", "f", " ", "i", "n", "d", "i", "a">> }

HasKeyword(t, code) == \E kw \in KeywordsOf(code) : Occurs(Lower(t), kw)

\* C3: find_issuer returns the first issuer code, in the declared order pnb,
\* lena, hdfc, sbi, with a keyword in the lower-cased text, and None when no
\* keyword occurs; a text with a pnb keyword and an hdfc keyword yields pnb.
C3_FirstDeclaredIssuer ==
    op = "find_issuer" =>
        LET H == {k \in 1..4 : HasKeyword(text, DeclaredIssuers[k])}
        IN  /\ issuer = IF H = {} THEN None ELSE Some(DeclaredIssuers[Min(H)])
            /\ HasKeyword(text, "pnb") /\ HasKeyword(text, "hdfc") => issuer = Some("pnb")

\* an hdfc keyword precedes the pnb keyword in the text, and pnb is returned
C3_Witness ==
    /\ op = "find_issuer"
    /\ text = <<"H", "D", "F", "C", " ", "P", "r", "e", "m", "i", "e", "r", " ", "p", "n", "b", " ", "P", "r", "i", "m", "e">>
    /\ issuer = Some("pnb")

\* the (page, name position) pairs where the name occurs in the lower-cased page
VariantHits(names) ==
    {kj \in (1..Len(pages)) \X (1..Len(names)) : Occurs(Lower(pages[kj[1]]), names[kj[2]])}

\* the smallest pair by page first and by list position second
FirstHit(P) ==
    CHOOSE x \in P : \A y \in P : x[1] < y[1] \/ (x[1] = y[1] /\ x[2] <= y[2])

\* C4: with a present hint, extract_card_variant returns the (page, name) pair
\* smallest by page index first and by position in the issuer's name list
\* second, whatever the position of the names in the text: the value is that
\* name title-cased and the confidence 0.85.  With an absent hint it returns
\* an absent Extraction noting "issuer unknown" and scans no page.
C4_VariantListOrder ==
    op = "extract_card_variant" =>
        IF hint = None \/ hint = Some("")
        THEN result = Absent("issuer unknown") /\ page_i = -1
        ELSE LET names == VariantNames(hint[1])
                 P     == VariantHits(names)
             IN  IF P = {} THEN result = Absent("not found")
                 ELSE /\ result.page = Some(FirstHit(P)[1])
                      /\ result.value = Some(Title(names[FirstHit(P)[2]]))
                      /\ result.confidence = 85

\* "elite" stands before "simplyclick" in the text and after it in sbi's list
C4_Witness ==
    /\ op = "extract_card_variant"
    /\ hint = Some("sbi")
    /\ pages = << <<>>, <<"S", "B", "I", " ", "e", "l", "i", "t", "e", " ", "S", "i", "m", "p", "l", "y", "C", "l", "i", "c", "k">> >>
    /\ result.value = Some(<<"S", "i", "m", "p", "l", "y", "c", "l", "i", "c", "k">>)
    /\ result.page = Some(2)
    /\ result.confidence = 85

IsNotFound(e) == e.value = None /\ e.confidence = 0 /\ e.notes # None

\* C5: for a document of zero pages parse_pdf completes and yields an absent
\* issuer_hint and, for each of the five fields, an Extraction with absent
\* value, confidence 0.0 and a note.
C5_EmptyDocument ==
    (op = "parse_pdf" /\ pages = <<>>) =>
        /\ record.issuer_hint = None
        /\ IsNotFound(record.card_last4)
        /\ IsNotFound(record.card_variant)
        /\ IsNotFound(record.statement_period)
        /\ IsNotFound(record.payment_due_date)
        /\ IsNotFound(record.total_balance)

C5_Witness ==
    /\ op = "parse_pdf"
    /\ pages = <<>>
    /\ record.card_variant.notes = Some("issuer unknown")

\* the Extraction the extractor o gives on the document pgs
ExtractorOn(o, pgs) ==
    IF o = "extract_card_variant" THEN extract_card_variant(pgs, hint).ret
    ELSE ExtractBy(o, pgs)

\* C6: a returned page number p is in 1..len(pages), p - 1 is the index the
\* loop returned at, no earlier page gives a value, and the value and the
\* snippet are those the page p alone gives.
C6_PageNumber ==
    (op \in Extractors /\ result.value # None) =>
        \E p \in 1..Len(pages) :
            /\ result.page = Some(p)
            /\ p - 1 = page_i
            /\ text = pages[p]
            /\ \A k \in 1..(p - 1) : ExtractorOn(op, <<pages[k]>>).value = None
            /\ ExtractorOn(op, <<pages[p]>>).value = result.value
            /\ ExtractorOn(op, <<pages[p]>>).snippet = result.snippet
            /\ IF op = "extract_card_variant"
               THEN Occurs(Lower(pages[p]), Lower(result.value[1]))
               ELSE \E a \in span[1]..span[2], b \in span[1]..span[2] :
                       /\ a <= b
                       /\ normalize_spaces(Slice(pages[p], a, b)) = result.value[1]

C6_Witness ==
    /\ op = "extract_total_balance"
    /\ Len(pages) = 2
    /\ result.page = Some(2)
    /\ pages[1] = <<"C", "a", "r", "d", " ", "e", "n", "d", "i", "n", "g", " ", "i", "n", " ", "4", "3", "2", "1">>
    /\ pages[2] = <<"h", "d", "f", "c", " ", "C", "l", "a", "s", "s", "i", "c", " ", "N", "e", "w", " ", "B", "a", "l", "a", "n", "c", "e", " ", "5", "0", "0">>
    /\ result.value = Some(<<"5", "0", "0">>)

\* what the window loses at the start and at the end of the text
Clipped(t, sp) == Max2(0, 40 - sp[1]) + Max2(0, sp[2] + 40 - Len(t))

\* C7: for 0 <= start <= end <= len(text), snippet_around(text, span, 40) is
\* at most (end - start) + 80 long, less the amount clipped at the edges of
\* the text; the snippet of every returned Extraction, the card variant's
\* too, is at most the length of its match span + 80 long.
C7_SnippetLength ==
    /\ op = "snippet_around" =>
          Len(snip) <= (span[2] - span[1]) + 80 - Clipped(text, span)
    /\ (op \in Extractors /\ result.value # None) =>
          Len(result.snippet[1]) <= (span[2] - span[1]) + 80

\* an unclipped window of a non-empty span, and a snippet that normalization
\* did not empty
C7_Witness ==
    /\ op = "snippet_around"
    /\ span[1] >= 40
    /\ span[2] + 40 <= Len(text)
    /\ span[1] < span[2]
    /\ Len(snip) > 60

\* v has the currency shape: an optional rupee sign, optional whitespace,
\* digits and commas, an optional fraction of two digits
CurrencyShaped(v) ==
    \E a \in 0..1, b \in 0..Len(v), c \in 1..Len(v) :
        /\ a = 1 => At(v, 0) = Rupee
        /\ a <= b /\ b < c
        /\ \A k \in a..(b - 1) : At(v, k) \in Whitespace
        /\ \A k \in b..(c - 1) : At(v, k) \in Digits \cup {","}
        /\ \/ c = Len(v)
           \/ /\ c + 3 = Len(v)
              /\ At(v, c) = "."
              /\ At(v, c + 1) \in Digits
              /\ At(v, c + 2) \in Digits

\* C8: on the page where the total-balance label pattern matches,
\* extract_total_balance returns the currency-shaped token found in the
\* captured phrase at confidence 0.95 when there is one, and the whole
\* normalized phrase at 0.8 otherwise; a found Extraction has 0.95 or 0.8
\* according to the rule that gave it.
C8_TotalBalanceConfidence ==
    (op = "extract_total_balance" /\ result.value # None) =>
        LET g   == Group1(text, RE_TOTAL_BAL_search(text))
            amt == RE_CURRENCY_search(g)
        IN  /\ RE_TOTAL_BAL_search(text).ok
            /\ Span(RE_TOTAL_BAL_search(text)) = span
            /\ IF amt.ok
               THEN /\ result.value = Some(Slice(g, amt.start, amt.end))
                    /\ CurrencyShaped(result.value[1])
                    /\ result.confidence = 95
               ELSE /\ result.value = Some(normalize_spaces(g))
                    /\ result.confidence = 80

C8_Witness ==
    /\ op = "extract_total_balance"
    /\ text = <<"S", "t", "a", "t", "e", "m", "e", "n", "t", " ", "P", "e", "r", "i", "o", "d", ":", " ", "1", "/", "1", "/", "2", "4", " ", "t", "o", " ", "3", "1", "/", "1", "/", "2", "4", "\n", "T", "o", "t", "a", "l", " ", "A", "m", "o", "u", "n", "t", " ", "D", "u", "e", ":", " ", Rupee, "1", "2", ",", "3", "4", "5", ".", "6", "7">>
    /\ result.value = Some(<<Rupee, "1", "2", ",", "3", "4", "5", ".", "6", "7">>)
    /\ result.confidence = 95

\* C9: extract_last4's value is a string of exactly 4 digits at confidence
\* 0.95, taken from a label followed by exactly 4 digits: the digit run that
\* follows the label is not longer than the value.
C9_ExactlyFourDigits ==
    (op = "extract_last4" /\ result.value # None) =>
        /\ Len(result.value[1]) = 4
        /\ \A k \in 1..4 : result.value[1][k] \in Digits
        /\ result.confidence = 95
        /\ result.value[1] = Slice(text, span[2] - 4, span[2])
        /\ At(text, span[2]) \notin Digits

\* C10: in the record parse_pdf returns, card_variant has a value only when
\* issuer_hint is "sbi"; for pnb, lena and hdfc it is absent with the note
\* "not found", and for an absent issuer_hint absent with "issuer unknown".
C10_VariantOnlyForSbi ==
    op = "parse_pdf" =>
        /\ record.issuer_hint \in {None, Some("pnb"), Some("lena"), Some("hdfc"), Some("sbi")}
        /\ record.card_variant.value # None => record.issuer_hint = Some("sbi")
        /\ record.issuer_hint \in {Some("pnb"), Some("lena"), Some("hdfc")}
              => record.card_variant = Absent("not found")
        /\ record.issuer_hint = None => record.card_variant = Absent("issuer unknown")

\* the issuer is hdfc and a page holds a name of sbi's list
C10_Witness ==
    /\ op = "parse_pdf"
    /\ pages = << <<"h", "d", "f", "c", " ", "C", "l", "a", "s", "s", "i", "c", " ", "N", "e", "w", " ", "B", "a", "l", "a", "n", "c", "e", " ", "5", "0", "0">> >>
    /\ record.issuer_hint = Some("hdfc")
    /\ record.card_variant.notes = Some("not found")

=============================================================================
